---- MODULE Spec2Model ----
(***************************************************************************)
(* A model of rainfall_routing.py: the simulated clock (Agora), the road   *)
(* network (Grafo), the radar (Radar), the oracle, the flood classifier    *)
(* and the re-planning loop (Experiment.experiment).                       *)
(*                                                                         *)
(* Coordinates are integers in units of 100 m on a small square map, so    *)
(* that a distance of exactly 200 m exists.  Nodes are 1..5 (A..E).        *)
(* Python's None is the empty tuple.  Python lists are sequences, indexed  *)
(* from 1 here and from 0 in the source.                                   *)
(***************************************************************************)
EXTENDS Integers, Sequences, FiniteSets, TLC

VARIABLES
    agora,          \* an Agora object (Experiment.agora; the clock stepped twice)
    time,           \* an Agora object (the loop's deep copy; the clock stepped once)
    graph,          \* Grafo.graph: [nodes, edges], edges are <<u, v, key>>
    weights,        \* the edges' 'weight' attribute, for the edges that have one
    radar_files,    \* the radar source: rendered timestamp -> raw file, or NoFile
    flood_df,       \* the flood report: a sequence of rows
    origin,         \* Experiment.origin
    destination,    \* Experiment.destination
    start,          \* experiment(): the vehicle's position
    rains,          \* experiment(): the per-edge rainfall map of the iteration
    edge_rains,     \* experiment(): the exposure record
    shortest_path,  \* experiment(): the path planned in the iteration
    log,            \* history: one entry per completed loop iteration
    pc,             \* the position in the running operation
    args,           \* the arguments of the operation under test
    ret             \* what the operation under test returned

vars ==
    << agora, time, graph, weights, radar_files, flood_df, origin, destination,
       start, rains, edge_rains, shortest_path, log, pc, args, ret >>

None == << >>

Range(s) == { s[i] : i \in DOMAIN s }
NoFile == "nofile"

(***************************************************************************)
(* Bounds of the model.                                                    *)
(***************************************************************************)
MaxPathLen == 3
MaxFlood == 2
MaxRows == 2
MaxIter == 4

(***************************************************************************)
(* The map, (lon, lat) = (x, y):                                           *)
(*   A=1 (0,1)  B=2 (2,1)  C=3 (3,2)  D=4 (2,3)  E=5 (2,3)  F=6 (3,3).     *)
(* E lies within a decimetre of D: the edge E->D has a travel time that    *)
(* osmnx rounds to 0.0 s.                                                  *)
(***************************************************************************)
Nodes == 1..6

NodeX == << 0, 2, 3, 2, 2, 3 >>

NodeY == << 1, 1, 2, 3, 3, 3 >>

WorldEdges ==
    { <<1, 2, 0>>, <<2, 3, 0>>, <<3, 1, 0>>, <<3, 4, 0>>, <<1, 4, 0>>,
      <<5, 4, 0>>, <<4, 6, 0>> }

travel_time ==
    [ e \in WorldEdges |->
        CASE e = <<1, 2, 0>> -> 300
          [] e = <<2, 3, 0>> -> 400
          [] e = <<3, 1, 0>> -> 700
          [] e = <<3, 4, 0>> -> 500
          [] e = <<1, 4, 0>> -> 900
          [] e = <<5, 4, 0>> -> 0
          [] e = <<4, 6, 0>> -> 200 ]

\* The optional 'geometry' of an edge: its polyline of (lon, lat) points.
geometry ==
    [ e \in WorldEdges |->
        CASE e = <<1, 4, 0>> -> << <<0, 1>>, <<1, 2>>, <<2, 3>> >>
          [] e = <<3, 4, 0>> -> << <<3, 2>>, <<3, 3>>, <<2, 3>> >>
          [] OTHER -> None ]

WorldGraph == [ nodes |-> Nodes, edges |-> WorldEdges ]

\* The Grafo's originating bounding box.
lat0 == 0
latoo == 4
lon0 == 0
lonoo == 4

(***************************************************************************)
(* Agora                                                                   *)
(***************************************************************************)
Agora(year, month, day, hour, minute, second) ==
    [ year |-> year, month |-> month, day |-> day,
      hour |-> hour, minute |-> minute, second |-> second ]

\* A bug: the carry into the minutes is taken from the argument alone.
step_carry_from_argument(self, integer) ==
    LET total_seconds == self.second + integer
        second        == total_seconds % 60
        total_minutes == integer \div 60 + self.minute
        minute        == total_minutes % 60
        total_hours   == (total_minutes - minute) \div 60 + self.hour
        hour          == total_hours % 24
    IN  [ self EXCEPT !.second = second, !.minute = minute, !.hour = hour,
                      !.day = self.day + (total_hours - hour) \div 24 ]

\* A bug: the hour wraps and the day is left alone.
step_no_day(self, integer) ==
    LET total_seconds == self.second + integer
        second        == total_seconds % 60
        total_minutes == (total_seconds - second) \div 60 + self.minute
        minute        == total_minutes % 60
        total_hours   == (total_minutes - minute) \div 60 + self.hour
        hour          == total_hours % 24
    IN  [ self EXCEPT !.second = second, !.minute = minute, !.hour = hour ]

step(self, integer) ==
    LET total_seconds == self.second + integer
        second        == total_seconds % 60
        total_minutes == (total_seconds - second) \div 60 + self.minute
        minute        == total_minutes % 60
        total_hours   == (total_minutes - minute) \div 60 + self.hour
        hour          == total_hours % 24
    IN  [ self EXCEPT !.second = second, !.minute = minute, !.hour = hour,
                      !.day = self.day + (total_hours - hour) \div 24 ]

(***************************************************************************)
(* Grafo.find_edge_by_nodes and the oracle                                 *)
(***************************************************************************)
\* The first of a list of edges between one ordered pair of nodes: the
\* multigraph lists the parallel edges of a pair by ascending key.
first_edge(es) == CHOOSE e \in es : \A f \in es : e[3] <= f[3]

find_edge_by_nodes(g, node1, node2) ==
    LET e1 == { e \in g.edges : e[1] = node1 /\ e[2] = node2 }
        e2 == { e \in g.edges : e[1] = node2 /\ e[2] = node1 }
    IN  IF e1 = {} /\ e2 = {} THEN None
        ELSE IF e1 # {} THEN first_edge(e1)
        ELSE first_edge(e2)

\* initial_indices: the indices of initial_point in path, ascending.
initial_indices(path, initial_point) ==
    { i \in 1..Len(path) : path[i] = initial_point }

\* A bug: the loop goes on when the budget is exactly used up.
oracle_continue_at_zero(tyme, n, path) == tyme >= 0 /\ n < Len(path)

\* A bug: the loop stops one edge before the end of the path.
oracle_continue_short(tyme, n, path) == tyme > 0 /\ n < Len(path) - 1

\* The guard of the oracle's while loop (n is one more than the source's).
oracle_continue(tyme, n, path) == tyme > 0 /\ n < Len(path)

RECURSIVE oracle_loop(_, _, _, _, _, _)
oracle_loop(g, path, n, next_node, crossed_edges, tyme) ==
    IF oracle_continue(tyme, n, path)
    THEN LET current_node == path[n]
             nxt          == path[n + 1]
             e            == find_edge_by_nodes(g, current_node, nxt)
         IN  IF e = None
             \* grafo.graph.edges[None] raises: nothing is returned
             THEN [ status |-> "raised", next_node |-> nxt,
                    crossed_edges |-> Append(crossed_edges, e), tyme |-> tyme ]
             ELSE oracle_loop(g, path, n + 1, nxt, Append(crossed_edges, e),
                              tyme - travel_time[e])
    ELSE [ status |-> "returned", next_node |-> next_node,
           crossed_edges |-> crossed_edges, tyme |-> tyme ]

\* A bug: the oracle returns the node the last crossed edge starts at
\* (current_node) instead of the node it ends at.
oracle_returns_current_node(g, path, initial_point, tyme) ==
    LET indices == initial_indices(path, initial_point)
    IN  IF indices = {}
        THEN [ status |-> "returned", next_node |-> initial_point,
               crossed_edges |-> << >>, tyme |-> tyme ]
        ELSE LET n == CHOOSE i \in indices : \A j \in indices : i <= j
                 r == oracle_loop(g, path, n, initial_point, << >>, tyme)
             IN  IF r.status = "returned" /\ r.crossed_edges # << >>
                 THEN [ r EXCEPT !.next_node =
                                   path[n + Len(r.crossed_edges) - 1] ]
                 ELSE r

oracle(g, path, initial_point, tyme) ==
    LET indices == initial_indices(path, initial_point)
    IN  IF indices = {}
        THEN [ status |-> "returned", next_node |-> initial_point,
               crossed_edges |-> << >>, tyme |-> tyme ]
        ELSE LET n == CHOOSE i \in indices : \A j \in indices : i <= j
             IN  oracle_loop(g, path, n, initial_point, << >>, tyme)

(***************************************************************************)
(* is_flooded                                                              *)
(***************************************************************************)
Abs(x) == IF x < 0 THEN -x ELSE x

\* The integer part of a square root.
Isqrt(n, hi) == CHOOSE r \in 0..hi : r * r <= n /\ n < (r + 1) * (r + 1)

\* distance.great_circle(p, q).meters for (lat, lon) points p and q, whole
\* metres: a unit of the map is 100 m.
great_circle_table ==
    [ dlat \in 0..4, dlon \in 0..4 |->
        Isqrt(10000 * (dlat * dlat + dlon * dlon), 100 * (dlat + dlon)) ]

great_circle_meters(p, q) ==
    great_circle_table[Abs(p[1] - q[1]), Abs(p[2] - q[2])]

\* The proximity radius of is_flooded, in metres.
Radius == 200

\* A bug: a point at exactly the radius counts as flooded.
within_radius_inclusive(p, q) == great_circle_meters(p, q) <= Radius

within_radius(p, q) == great_circle_meters(p, q) < Radius

\* lonlats: the (lon, lat) points of an edge: the vertices of its geometry
\* when it has one, then its initial node, then its final node.
edge_lonlats(g, edge) ==
    (IF geometry[edge] # None THEN geometry[edge] ELSE << >>)
        \o << <<NodeX[edge[1]], NodeY[edge[1]]>> >>
        \o << <<NodeX[edge[2]], NodeY[edge[2]]>> >>

edge_latlons(g, edge) ==
    LET lonlats == edge_lonlats(g, edge)
    IN  [ i \in 1..Len(lonlats) |-> <<lonlats[i][2], lonlats[i][1]>> ]

\* for q in flooded_points: if near: tf = True; break
RECURSIVE flooded_inner(_, _, _, _)
flooded_inner(p, flooded_points, j, tf) ==
    IF j > Len(flooded_points) THEN tf
    ELSE IF within_radius(p, flooded_points[j]) THEN TRUE
    ELSE flooded_inner(p, flooded_points, j + 1, tf)

\* for p in latlons: ...
RECURSIVE flooded_outer(_, _, _, _)
flooded_outer(latlons, flooded_points, i, tf) ==
    IF i > Len(latlons) THEN tf
    ELSE flooded_outer(latlons, flooded_points, i + 1,
                       flooded_inner(latlons[i], flooded_points, 1, tf))

is_flooded(g, edge, flooded_points) ==
    flooded_outer(edge_latlons(g, edge), flooded_points, 1, FALSE)

(***************************************************************************)
(* Agora.__repr__ and Agora.get_flooding_points.  A string is the sequence *)
(* of its character codes, compared as Python compares strings.            *)
(***************************************************************************)
RECURSIVE Digits(_)
Digits(n) == IF n < 10 THEN << 48 + n >> ELSE Digits(n \div 10) \o << 48 + (n % 10) >>

RECURSIVE ZeroPad(_, _)
ZeroPad(str, width) == IF Len(str) >= width THEN str ELSE ZeroPad(<< 48 >> \o str, width)

\* f"{n:0<width>d}"
Fmt(n, width) == ZeroPad(Digits(n), width)

Dash == << 45 >>
Colon == << 58 >>

RECURSIVE StrLess(_, _)
StrLess(a, b) ==
    IF b = << >> THEN FALSE
    ELSE IF a = << >> THEN TRUE
    ELSE IF a[1] # b[1] THEN a[1] < b[1]
    ELSE StrLess(Tail(a), Tail(b))

\* 'YYYYMMDDHHMM'
repr(self) ==
    Fmt(self.year, 4) \o Fmt(self.month, 2) \o Fmt(self.day, 2)
        \o Fmt(self.hour, 2) \o Fmt(self.minute, 2)

DateStr(year, month, day) == Fmt(year, 4) \o Dash \o Fmt(month, 2) \o Dash \o Fmt(day, 2)

TimeStr(hour, minute, second) ==
    Fmt(hour, 2) \o Colon \o Fmt(minute, 2) \o Colon \o Fmt(second, 2)

\* The projected coordinates (metres) of the map's origin.
UtmX0 == 330000
UtmY0 == 7390000

\* UTM 23S metres -> EPSG:4326, whose axis order is (lat, lon).
convert_coordinates(longitude, latitude) ==
    << (latitude - UtmY0) \div 100, (longitude - UtmX0) \div 100 >>

\* The row filter of get_flooding_points.
row_selected(row, date, start_time) ==
    /\ row.DATE = date
    /\ StrLess(row.START_T, start_time)
    /\ StrLess(start_time, row.END_T)

get_flooding_points(self, df) ==
    LET date       == DateStr(self.year, self.month, self.day)
        start_time == TimeStr(self.hour, self.minute, self.second)
        selected(row) == row_selected(row, date, start_time)
        my_floods  == SelectSeq(df, selected)
    IN  [ i \in 1..Len(my_floods) |->
            convert_coordinates(my_floods[i].X, my_floods[i].Y) ]

(***************************************************************************)
(* nx.astar_path, ox.truncate.truncate_graph_bbox and Grafo.crop           *)
(***************************************************************************)
\* The simple paths of g that extend the path p to the node target.
RECURSIVE Extend(_, _, _)
Extend(g, p, target) ==
    IF p[Len(p)] = target THEN { p }
    ELSE UNION { Extend(g, Append(p, e[2]), target) :
                    e \in { f \in g.edges : f[1] = p[Len(p)] /\ f[2] \notin Range(p) } }

\* The cost of a step u -> v: the least attribute among the parallel edges.
StepCost(g, w, u, v) ==
    LET es == { e \in g.edges : e[1] = u /\ e[2] = v }
    IN  CHOOSE c \in { w[e] : e \in es } : \A e \in es : c <= w[e]

RECURSIVE PathCost(_, _, _)
PathCost(g, w, p) ==
    IF Len(p) <= 1 THEN 0
    ELSE StepCost(g, w, p[1], p[2]) + PathCost(g, w, Tail(p))

\* The paths nx.astar_path may return: the cheapest ones from source to
\* target under the edge attribute w.  The empty set: the search raises
\* (node not found, or no path).
astar_paths(g, source, target, w) ==
    IF source \notin g.nodes \/ target \notin g.nodes THEN {}
    ELSE LET all == Extend(g, << source >>, target)
         IN  { p \in all : \A q \in all : PathCost(g, w, p) <= PathCost(g, w, q) }

Min(a, b) == IF a <= b THEN a ELSE b
Max(a, b) == IF a >= b THEN a ELSE b
MinOf(S) == CHOOSE x \in S : \A y \in S : x <= y
MaxOf(S) == CHOOSE x \in S : \A y \in S : x >= y

\* The nodes weakly connected to the set S in the graph (ns, es).
RECURSIVE Component(_, _, _)
Component(ns, es, S) ==
    LET more == { n \in ns : \E e \in es :
                    \/ e[1] \in S /\ e[2] = n
                    \/ e[2] \in S /\ e[1] = n }
    IN  IF more \subseteq S THEN S ELSE Component(ns, es, S \cup more)

\* ox.truncate.truncate_graph_bbox: the nodes outside the box and their
\* edges are removed and, retain_all being False by default, only the
\* largest weakly connected component is kept: of several largest ones the
\* first in the order of the nodes, which is the order of their ids here.
truncate_graph_bbox(g, north, south, east, west) ==
    LET inside == { n \in g.nodes :
                      /\ south <= NodeY[n] /\ NodeY[n] <= north
                      /\ west <= NodeX[n] /\ NodeX[n] <= east }
        es     == { e \in g.edges : e[1] \in inside /\ e[2] \in inside }
        comps  == { Component(inside, es, { n }) : n \in inside }
        largest == { c \in comps : \A d \in comps : Cardinality(c) >= Cardinality(d) }
        kept   == CHOOSE c \in largest : \A d \in largest : MinOf(c) <= MinOf(d)
    IN  [ nodes |-> kept, edges |-> { e \in es : e[1] \in kept } ]

\* The bounding box crop truncates to, as <<north, south, east, west>>.
crop_bbox(gmaps_path) ==
    LET lats == { NodeY[n] : n \in Range(gmaps_path) }
        lons == { NodeX[n] : n \in Range(gmaps_path) }
        lat_min == MinOf(lats)
        lat_max == MaxOf(lats)
        lon_min == MinOf(lons)
        lon_max == MaxOf(lons)
        bbox_lat_min == Max(lat0, lat_min - (lat_max - lat_min))
        bbox_lat_max == Min(latoo, lat_max + (lat_max - lat_min))
        bbox_lon_min == Max(lon0, lon_min - (lon_max - lon_min))
        bbox_lon_max == Min(lonoo, lon_max + (lon_max - lon_min))
    IN  << bbox_lat_max, bbox_lat_min, bbox_lon_max, bbox_lon_min >>

\* The graph Grafo.crop leaves in self.graph, given the path it found.
crop(g, gmaps_path) ==
    LET b == crop_bbox(gmaps_path)
    IN  truncate_graph_bbox(g, b[1], b[2], b[3], b[4])

(***************************************************************************)
(* Radar                                                                   *)
(***************************************************************************)
\* The radar's grid: its origin and spacing, in map units.
radar_lat0 == 0
radar_lon0 == 0
radar_dlat == 1
radar_dlon == 1

\* The radar files of the source, by name: rows of integer tokens, the
\* row and the column counted from 0; the token -99 stands for no data.
RawFile(name) ==
    [ row \in 0..4, col \in 0..4 |->
        CASE name = "G1" /\ <<row, col>> = <<2, 1>> -> 5
          [] name = "G2" /\ <<row, col>> = <<3, 3>> -> 5
          [] name = "G3" /\ <<row, col>> = <<2, 1>> -> 5
          [] name = "G3" /\ <<row, col>> = <<1, 0>> -> 2
          [] <<row, col>> \in { <<0, 0>>, <<4, 4>> } -> -99
          [] OTHER -> 0 ]

\* Radar.rain_by_time: the matrix A of the file of the clock's rendered
\* time, -99 replaced with 0; None when there is no file.
rain_by_time(agora_) ==
    LET key == repr(agora_)
    IN  IF key \notin DOMAIN radar_files \/ radar_files[key] = NoFile THEN None
        ELSE LET data == RawFile(radar_files[key])
             IN  [ rc \in DOMAIN data |-> IF data[rc] = -99 THEN 0 ELSE data[rc] ]

\* Radar.rain_at_edge: the largest rainfall at the points of the edge.
rain_at_edge(g, edge, agora_) ==
    LET lonlats == edge_lonlats(g, edge)
        rowcols == [ i \in 1..Len(lonlats) |->
                       << (lonlats[i][2] - radar_lat0) \div radar_dlat,
                          (lonlats[i][1] - radar_lon0) \div radar_dlon >> ]
        matrix  == rain_by_time(agora_)
    IN  MaxOf({ matrix[rowcols[i][1], rowcols[i][2]] : i \in 1..Len(rowcols) })

(***************************************************************************)
(* Experiment.experiment                                                   *)
(***************************************************************************)
\* The cost of a millimetre of rain and of a flooded edge, in seconds.
RainCost == 300
FloodPenalty == 10000

\* The weight function handed to experiment(): travel time, rainfall and a
\* large penalty for an edge near a flood point.
weight(g, e, flooding_points, rains_) ==
    travel_time[e] + RainCost * rains_[e]
        + (IF is_flooded(g, e, flooding_points) THEN FloodPenalty ELSE 0)

\* The horizon: the seconds the clock is stepped by and the oracle's budget.
Horizon == 600

\* A bug: without a grid the weights are still recomputed, with no rain.
plan_update_reweigh(g, time_, weights_) ==
    LET flooding_points == get_flooding_points(time_, flood_df)
        rains_ == IF rain_by_time(time_) # None
                  THEN [ e \in g.edges |-> rain_at_edge(g, e, time_) ]
                  ELSE [ e \in g.edges |-> 0 ]
    IN  [ rains |-> rains_,
          weights |-> [ e \in g.edges |-> weight(g, e, flooding_points, rains_) ] ]

\* The update at the top of the loop: the flood points, the per-edge
\* rainfall and the weights.
plan_update(g, time_, weights_) ==
    LET flooding_points == get_flooding_points(time_, flood_df)
    IN  IF rain_by_time(time_) # None
        THEN LET rains_ == [ e \in g.edges |-> rain_at_edge(g, e, time_) ]
             IN  [ rains |-> rains_,
                   weights |-> [ e \in g.edges |->
                                   weight(g, e, flooding_points, rains_) ] ]
        ELSE [ rains |-> [ e \in g.edges |-> 0 ], weights |-> weights_ ]

\* The 'weight' attribute as the path search reads it: 1 where it is unset.
weight_or_default(g, weights_) ==
    [ e \in g.edges |-> IF e \in DOMAIN weights_ THEN weights_[e] ELSE 1 ]

\* A bug: a later crossing adds to the value recorded before.
record_accumulate(edge_rains_, subpath, rains_) ==
    [ e \in DOMAIN edge_rains_ \cup Range(subpath) |->
        IF e \in Range(subpath)
        THEN (IF e \in DOMAIN edge_rains_ THEN edge_rains_[e] ELSE 0) + rains_[e]
        ELSE edge_rains_[e] ]

\* for e in subpath: edge_rains[e] = rains[e]
record(edge_rains_, subpath, rains_) ==
    [ e \in DOMAIN edge_rains_ \cup Range(subpath) |->
        IF e \in Range(subpath) THEN rains_[e] ELSE edge_rains_[e] ]

(***************************************************************************)
(* Values the harness specifications draw their inputs from.               *)
(***************************************************************************)
Idle == "idle"

ClockInputs ==
    { Agora(2019, 2, d, h, m, s) :
        d \in {10, 28}, h \in {0, 23}, m \in {0, 59}, s \in {0, 30, 59} }

StepInputs == {0, 1, 30, 599, 600, 3661, 86400}

\* The paths: sequences of distinct nodes, as a path search returns them.
SimplePaths ==
    { p \in UNION { [1..k -> Nodes] : k \in 1..MaxPathLen } :
        \A i, j \in DOMAIN p : i # j => p[i] # p[j] }

Budgets == {1, 300, 500, 600, 1200}

\* The map, whole or with one edge missing.
OracleGraphs ==
    { [ nodes |-> Nodes, edges |-> WorldEdges \ S ] :
        S \in { T \in SUBSET WorldEdges : Cardinality(T) <= 1 } }

SeqsUpTo(S, n) == UNION { [1..k -> S] : k \in 0..n }

\* Flood points, as (lat, lon).
FloodCandidates == { <<lat, lon>> : lat \in 0..4, lon \in 1..3 }

\* Flood report rows: a date, a time-of-day interval, a projected location.
FloodDates == { DateStr(2019, 2, 10), DateStr(2019, 2, 11) }

FloodIntervals ==
    { << TimeStr(23, 40, 0), TimeStr(23, 50, 0) >>,
      << TimeStr(23, 50, 0), TimeStr(23, 59, 59) >>,
      << TimeStr(0, 0, 0), TimeStr(0, 10, 0) >> }

FloodSites == { << UtmX0 + 200, UtmY0 + 100 >>, << UtmX0 + 100, UtmY0 + 400 >> }

FloodRows ==
    { [ DATE |-> d, START_T |-> iv[1], END_T |-> iv[2], X |-> xy[1], Y |-> xy[2] ] :
        d \in FloodDates, iv \in FloodIntervals, xy \in FloodSites }

FloodClocks ==
    { Agora(2019, 2, 10, 23, 40, 0), Agora(2019, 2, 10, 23, 45, 30),
      Agora(2019, 2, 10, 23, 50, 0), Agora(2019, 2, 10, 23, 59, 59),
      Agora(2019, 2, 11, 0, 0, 0), Agora(2019, 2, 11, 0, 10, 0) }

\* The networks a Grafo can hold: ox.graph_from_bbox returns one weakly
\* connected component, so every node has an edge and all are connected.
GraphOf(es) ==
    [ nodes |-> { e[1] : e \in es } \cup { e[2] : e \in es }, edges |-> es ]

Connected(g) == \A n \in g.nodes : Component(g.nodes, g.edges, { n }) = g.nodes

CropGraphs ==
    { g \in { GraphOf(es) : es \in (SUBSET WorldEdges) \ { {} } } : Connected(g) }

\* The experiment's time of departure and flood report.
Departure == Agora(2019, 2, 10, 23, 40, 0)

ExperimentFloods ==
    << [ DATE |-> DateStr(2019, 2, 10), START_T |-> TimeStr(23, 40, 0),
         END_T |-> TimeStr(23, 59, 59), X |-> UtmX0 + 200, Y |-> UtmY0 ] >>

RECURSIVE StepTimes(_, _)
StepTimes(t, n) == IF n = 0 THEN t ELSE StepTimes(step(t, Horizon), n - 1)

\* The rendered times of the loop's iterations.
RadarKeys == { repr(StepTimes(Departure, i)) : i \in 0..(MaxIter - 1) }

(***************************************************************************)
(* SpecClock: two equal clocks; one is stepped by a and then by b, the     *)
(* other once by a + b.                                                    *)
(***************************************************************************)
InitClock ==
    /\ agora \in ClockInputs
    /\ time = agora
    /\ args \in [ t0 : {agora}, a : StepInputs, b : StepInputs ]
    /\ pc = "step_a"
    /\ graph = WorldGraph
    /\ weights = Idle /\ radar_files = Idle /\ flood_df = Idle
    /\ origin = Idle /\ destination = Idle /\ start = Idle
    /\ rains = Idle /\ edge_rains = Idle /\ shortest_path = Idle /\ log = Idle /\ ret = Idle

StepA ==
    /\ pc = "step_a"
    /\ agora' = step(agora, args.a)
    /\ pc' = "step_b"
    /\ UNCHANGED << time, graph, weights, radar_files, flood_df, origin,
                    destination, start, rains, edge_rains, shortest_path, log, args, ret >>

StepB ==
    /\ pc = "step_b"
    /\ agora' = step(agora, args.b)
    /\ pc' = "step_sum"
    /\ UNCHANGED << time, graph, weights, radar_files, flood_df, origin,
                    destination, start, rains, edge_rains, shortest_path, log, args, ret >>

StepSum ==
    /\ pc = "step_sum"
    /\ time' = step(time, args.a + args.b)
    /\ pc' = "stepped"
    /\ UNCHANGED << agora, graph, weights, radar_files, flood_df, origin,
                    destination, start, rains, edge_rains, shortest_path, log, args, ret >>

NextClock == StepA \/ StepB \/ StepSum

SpecClock == InitClock /\ [][NextClock]_vars

(***************************************************************************)
(* SpecOracle: one call of oracle(grafo, path, initial_point, tyme).       *)
(***************************************************************************)
InitOracle ==
    /\ graph \in OracleGraphs
    /\ args \in [ path : SimplePaths, initial_point : Nodes, tyme : Budgets ]
    /\ pc = "call_oracle"
    /\ ret = Idle
    /\ agora = Idle /\ time = Idle
    /\ weights = Idle /\ radar_files = Idle /\ flood_df = Idle
    /\ origin = Idle /\ destination = Idle /\ start = Idle
    /\ rains = Idle /\ edge_rains = Idle /\ shortest_path = Idle /\ log = Idle

CallOracle ==
    /\ pc = "call_oracle"
    /\ ret' = oracle(graph, args.path, args.initial_point, args.tyme)
    /\ pc' = "oracle_done"
    /\ UNCHANGED << agora, time, graph, weights, radar_files, flood_df, origin,
                    destination, start, rains, edge_rains, shortest_path, log, args >>

NextOracle == CallOracle

SpecOracle == InitOracle /\ [][NextOracle]_vars

(***************************************************************************)
(* SpecFlooded: one call of is_flooded(graph, edge, flooded_points).       *)
(***************************************************************************)
InitFlooded ==
    /\ graph = WorldGraph
    /\ args \in [ edge : WorldEdges,
                  flooded_points : SeqsUpTo(FloodCandidates, MaxFlood) ]
    /\ pc = "call_is_flooded"
    /\ ret = Idle
    /\ agora = Idle /\ time = Idle
    /\ weights = Idle /\ radar_files = Idle /\ flood_df = Idle
    /\ origin = Idle /\ destination = Idle /\ start = Idle
    /\ rains = Idle /\ edge_rains = Idle /\ shortest_path = Idle /\ log = Idle

CallIsFlooded ==
    /\ pc = "call_is_flooded"
    /\ ret' = is_flooded(graph, args.edge, args.flooded_points)
    /\ pc' = "is_flooded_done"
    /\ UNCHANGED << agora, time, graph, weights, radar_files, flood_df, origin,
                    destination, start, rains, edge_rains, shortest_path, log, args >>

NextFlooded == CallIsFlooded

SpecFlooded == InitFlooded /\ [][NextFlooded]_vars

(***************************************************************************)
(* SpecFloods: one call of time.get_flooding_points().                     *)
(***************************************************************************)
InitFloods ==
    /\ time \in FloodClocks
    /\ flood_df \in SeqsUpTo(FloodRows, MaxRows)
    /\ pc = "call_get_flooding_points"
    /\ ret = Idle
    /\ agora = Idle /\ graph = WorldGraph /\ args = Idle
    /\ weights = Idle /\ radar_files = Idle
    /\ origin = Idle /\ destination = Idle /\ start = Idle
    /\ rains = Idle /\ edge_rains = Idle /\ shortest_path = Idle /\ log = Idle

CallGetFloodingPoints ==
    /\ pc = "call_get_flooding_points"
    /\ ret' = get_flooding_points(time, flood_df)
    /\ pc' = "get_flooding_points_done"
    /\ UNCHANGED << agora, time, graph, weights, radar_files, flood_df, origin,
                    destination, start, rains, edge_rains, shortest_path, log, args >>

NextFloods == CallGetFloodingPoints

SpecFloods == InitFloods /\ [][NextFloods]_vars

(***************************************************************************)
(* SpecCrop: one call of grafo.crop(initial_point, final_point).           *)
(***************************************************************************)
InitCrop ==
    /\ graph \in CropGraphs
    /\ args \in [ initial_point : graph.nodes, final_point : graph.nodes ]
    /\ pc = "call_crop"
    /\ ret = Idle
    /\ agora = Idle /\ time = Idle
    /\ weights = Idle /\ radar_files = Idle /\ flood_df = Idle
    /\ origin = Idle /\ destination = Idle /\ start = Idle
    /\ rains = Idle /\ edge_rains = Idle /\ shortest_path = Idle /\ log = Idle

\* crop finds a path and truncates the network in place.
CallCrop ==
    /\ pc = "call_crop"
    /\ \E gmaps_path \in astar_paths(graph, args.initial_point, args.final_point,
                                     travel_time) :
         /\ graph' = crop(graph, gmaps_path)
         /\ ret' = [ status |-> "returned", gmaps_path |-> gmaps_path ]
    /\ pc' = "crop_done"
    /\ UNCHANGED << agora, time, weights, radar_files, flood_df, origin,
                    destination, start, rains, edge_rains, shortest_path, log, args >>

\* nx.astar_path raises (no path): the network is left as it was.
CallCropRaises ==
    /\ pc = "call_crop"
    /\ astar_paths(graph, args.initial_point, args.final_point, travel_time) = {}
    /\ ret' = [ status |-> "raised", gmaps_path |-> << >> ]
    /\ pc' = "crop_done"
    /\ UNCHANGED << agora, time, graph, weights, radar_files, flood_df, origin,
                    destination, start, rains, edge_rains, shortest_path, log, args >>

NextCrop == CallCrop \/ CallCropRaises

SpecCrop == InitCrop /\ [][NextCrop]_vars

(***************************************************************************)
(* Spec: Experiment.experiment(weight), from the constructed Experiment.   *)
(***************************************************************************)
Init ==
    /\ agora = Departure
    /\ graph = WorldGraph
    /\ weights = << >>
    /\ radar_files \in [ RadarKeys -> { NoFile, "G1", "G2", "G3" } ]
    /\ flood_df = ExperimentFloods
    /\ origin \in Nodes
    /\ destination \in Nodes
    /\ pc = "begin"
    /\ time = Idle /\ start = Idle /\ rains = Idle /\ edge_rains = Idle
    /\ shortest_path = Idle /\ log = << >> /\ args = Idle /\ ret = Idle

\* start, time, graph = crop(...), edge_rains = {}
Begin ==
    /\ pc = "begin"
    /\ \E gmaps_path \in astar_paths(graph, origin, destination, travel_time) :
         graph' = crop(graph, gmaps_path)
    /\ start' = origin
    /\ time' = agora
    /\ edge_rains' = << >>
    /\ pc' = "loop"
    /\ UNCHANGED << agora, weights, radar_files, flood_df, origin, destination,
                    rains, shortest_path, log, args, ret >>

\* crop raises: there is no path from the origin to the destination.
BeginRaises ==
    /\ pc = "begin"
    /\ astar_paths(graph, origin, destination, travel_time) = {}
    /\ start' = origin
    /\ time' = agora
    /\ pc' = "raised"
    /\ UNCHANGED << agora, graph, weights, radar_files, flood_df, origin,
                    destination, rains, edge_rains, shortest_path, log, args, ret >>

\* PLANNING: the update and the path search of one iteration.
Planning ==
    /\ pc = "loop"
    /\ start # destination
    /\ Len(log) < MaxIter
    /\ LET u     == plan_update(graph, time, weights)
           paths == astar_paths(graph, start, destination,
                                weight_or_default(graph, u.weights))
       IN  /\ rains' = u.rains
           /\ weights' = u.weights
           /\ IF paths = {}
              THEN pc' = "raised" /\ shortest_path' = shortest_path
              ELSE pc' = "advancing" /\ shortest_path' \in paths
    /\ UNCHANGED << agora, time, graph, radar_files, flood_df, origin,
                    destination, start, edge_rains, log, args, ret >>

\* ADVANCING: the clock is stepped, the oracle asked, the edges recorded.
Advancing ==
    /\ pc = "advancing"
    /\ time' = step(time, Horizon)
    /\ LET r == oracle(graph, shortest_path, shortest_path[1], Horizon)
       IN  IF r.status = "raised"
           THEN pc' = "raised" /\ UNCHANGED << start, edge_rains, log >>
           ELSE /\ start' = r.next_node
                /\ edge_rains' = record(edge_rains, r.crossed_edges, rains)
                /\ log' = Append(log, [ time |-> time, from |-> start,
                                        path |-> shortest_path,
                                        subpath |-> r.crossed_edges ])
                /\ pc' = "loop"
    /\ UNCHANGED << agora, graph, weights, radar_files, flood_df, origin,
                    destination, rains, shortest_path, args, ret >>

\* DONE: the loop ends and edge_rains is returned.
Return ==
    /\ pc = "loop"
    /\ start = destination
    /\ ret' = edge_rains
    /\ pc' = "returned"
    /\ UNCHANGED << agora, time, graph, weights, radar_files, flood_df, origin,
                    destination, start, rains, edge_rains, shortest_path, log, args >>

Next == Begin \/ BeginRaises \/ Planning \/ Advancing \/ Return

Spec == Init /\ [][Next]_vars

(***************************************************************************)
(* Properties of the clock (SpecClock).                                    *)
(***************************************************************************)
AtRollover(t) == t.hour = 23 /\ t.minute = 59 /\ t.second = 59

\* C3: step(a) then step(b) leaves the clock in the same state (year, month,
\* day, hour, minute, second) as one step(a + b), for every timestamp and
\* all non-negative a and b.
C3_StepAssociative == pc = "stepped" => agora = time

\* C3's case: both steps are non-zero and together they carry into the day.
C3_Witness ==
    /\ pc = "stepped"
    /\ args.a > 0 /\ args.b > 0
    /\ args.a < 3600 /\ args.b < 3600
    /\ agora.day = args.t0.day + 1

\* C9 as stated: stepping by 3661 s from hh:mm:ss = 23:59:59 gives hour 0
\* and the day incremented by 1, month and year unchanged.
C9_RolloverToHourZero ==
    (pc = "step_b" /\ args.a = 3661 /\ AtRollover(args.t0))
        => /\ agora.hour = 0
           /\ agora.day = args.t0.day + 1
           /\ agora.month = args.t0.month /\ agora.year = args.t0.year

\* C9 as amended: stepping by 3661 s from 23:59:59 gives 01:01:00 on the
\* next day (hour 1, not 0), month and year unchanged.
C9_RolloverToHourOne ==
    (pc = "step_b" /\ args.a = 3661 /\ AtRollover(args.t0))
        => /\ agora.hour = 1 /\ agora.minute = 1 /\ agora.second = 0
           /\ agora.day = args.t0.day + 1
           /\ agora.month = args.t0.month /\ agora.year = args.t0.year

\* C9's case: the clock stood at 23:59:59 and has been stepped by 3661 s.
C9_Witness == pc = "step_b" /\ args.a = 3661 /\ AtRollover(args.t0)

(***************************************************************************)
(* Properties of the oracle (SpecOracle).                                  *)
(***************************************************************************)
\* The index of a node on a path of distinct nodes.
IndexOf(path, node) == CHOOSE k \in 1..Len(path) : path[k] = node

\* The edge the network holds between the k-th and the next node of a path.
PathEdge(path, k) == find_edge_by_nodes(graph, path[k], path[k + 1])

\* Every pair of consecutive nodes from index i on is linked in the network.
Linked(path, i) == \A k \in i..(Len(path) - 1) : PathEdge(path, k) # None

\* The travel time of the m edges of a path that follow index i.
RECURSIVE Cum(_, _, _)
Cum(path, i, m) ==
    IF m = 0 THEN 0
    ELSE Cum(path, i, m - 1) + travel_time[PathEdge(path, i + m - 1)]

\* The length of the shortest prefix of the edges after index i whose travel
\* time reaches the budget T; all of them when none does.
StopCount(path, i, T) ==
    LET R == Len(path) - i
    IN  CHOOSE m \in 0..R :
            /\ m = R \/ Cum(path, i, m) >= T
            /\ \A j \in 0..(m - 1) : Cum(path, i, j) < T

OracleCalled == pc = "oracle_done" /\ args.initial_point \in Range(args.path)

\* C1: from index i with budget T > 0 the oracle crosses exactly the shortest
\* prefix of the remaining edges whose travel time sums to >= T (all of them
\* when their total is < T), in path order, and returns the node that prefix
\* ends at; for A->B->C with 300 s and 400 s and T = 600 it returns C, the
\* edges [A->B, B->C] and a remaining budget of -100.
C1_OracleStopRule ==
    LET path == args.path
        i    == IndexOf(path, args.initial_point)
        T    == args.tyme
        m    == StopCount(path, i, T)
    IN  (OracleCalled /\ T > 0 /\ Linked(path, i))
            => /\ ret.status = "returned"
               /\ ret.crossed_edges = [ k \in 1..m |-> PathEdge(path, i + k - 1) ]
               /\ ret.next_node = path[i + m]
               /\ ret.tyme = T - Cum(path, i, m)
               /\ (path = <<1, 2, 3>> /\ i = 1 /\ T = 600)
                    => /\ ret.next_node = 3
                       /\ ret.crossed_edges = << <<1, 2, 0>>, <<2, 3, 0>> >>
                       /\ ret.tyme = -100

\* C1's case: A->B->C from A with a budget of 600 s (an overshoot).
C1_Witness ==
    /\ OracleCalled
    /\ args.path = <<1, 2, 3>> /\ args.initial_point = 1 /\ args.tyme = 600
    /\ Linked(args.path, 1)
    /\ Len(ret.crossed_edges) = 2

\* C2 as stated: on a path of n >= 2 nodes, from any start index and with
\* any positive budget, the oracle returns a node at an index >= the start
\* index and crosses at least 1 edge; with a budget >= the travel time of
\* the whole path it returns the last node with n-1 edges crossed, in order.
C2_MonotoneAsStated ==
    LET path == args.path
        n    == Len(path)
        i    == IndexOf(path, args.initial_point)
        T    == args.tyme
    IN  (OracleCalled /\ n >= 2 /\ T > 0 /\ Linked(path, 1))
            => /\ ret.status = "returned"
               /\ IndexOf(path, ret.next_node) >= i
               /\ Len(ret.crossed_edges) >= 1
               /\ T >= Cum(path, 1, n - 1)
                    => /\ ret.next_node = path[n]
                       /\ Len(ret.crossed_edges) = n - 1
                       /\ \A k \in 1..(n - 1) :
                            ret.crossed_edges[k] = PathEdge(path, k)

\* C2 as amended: the returned node is at an index >= the start index; at
\* least 1 edge is crossed when the start node is not the last node; with a
\* budget greater than the travel time of the edges after the start index
\* the oracle returns the last node with all of those edges crossed, in
\* path order (n-1 edges from the first node).
C2_Monotone ==
    LET path == args.path
        n    == Len(path)
        i    == IndexOf(path, args.initial_point)
        T    == args.tyme
    IN  (OracleCalled /\ n >= 2 /\ T > 0 /\ Linked(path, 1))
            => /\ ret.status = "returned"
               /\ IndexOf(path, ret.next_node) >= i
               /\ i < n => Len(ret.crossed_edges) >= 1
               /\ T > Cum(path, i, n - i)
                    => /\ ret.next_node = path[n]
                       /\ Len(ret.crossed_edges) = n - i
                       /\ \A k \in 1..(n - i) :
                            ret.crossed_edges[k] = PathEdge(path, i + k - 1)

\* C2's case: a whole path of 3 nodes crossed from its first node.
C2_Witness ==
    /\ OracleCalled
    /\ Len(args.path) = 3 /\ args.initial_point = args.path[1]
    /\ Linked(args.path, 1)
    /\ args.tyme > Cum(args.path, 1, 2)
    /\ Len(ret.crossed_edges) = 2

\* C5: a lookup miss inside the oracle degrades: when the start node is not
\* in the path, or find_edge finds nothing for two consecutive path nodes,
\* the oracle still returns to its caller, records no edge for the miss and
\* does not move because of it.
C5_LookupMissDegrades ==
    pc = "oracle_done"
        => /\ ret.status = "returned"
           /\ \A k \in 1..Len(ret.crossed_edges) : ret.crossed_edges[k] # None
           /\ args.initial_point \notin Range(args.path)
                => ret.next_node = args.initial_point /\ ret.crossed_edges = << >>

(***************************************************************************)
(* Properties of is_flooded (SpecFlooded).                                 *)
(***************************************************************************)
\* The sampled points of an edge, as (lat, lon): the vertices of its
\* geometry and both of its end nodes.
SampledPoints(edge) ==
    { <<c[2], c[1]>> : c \in Range(geometry[edge]) }
        \cup { <<NodeY[edge[1]], NodeX[edge[1]]>>, <<NodeY[edge[2]], NodeX[edge[2]]>> }

\* The square of the distance of two points, in map units (100 m).
DistSq(p, q) == (p[1] - q[1]) * (p[1] - q[1]) + (p[2] - q[2]) * (p[2] - q[2])

\* Every reordering of a sequence.
Reorderings(s) ==
    IF s = << >> THEN { s }
    ELSE { [ i \in 1..Len(s) |-> s[f[i]] ] : f \in Permutations(1..Len(s)) }

\* C6: is_flooded is true exactly when some sampled point of the edge and
\* some flood point are strictly less than 200 m (2 map units) apart, and
\* so it is the same for every order of the flood points and of the
\* sampled points.
C6_FloodedIsExistential ==
    pc = "is_flooded_done"
        => /\ ret = (\E p \in SampledPoints(args.edge) :
                     \E q \in Range(args.flooded_points) : DistSq(p, q) < 2 * 2)
           /\ \A f \in Reorderings(args.flooded_points) :
                is_flooded(graph, args.edge, f) = ret
           /\ \A s \in Reorderings(edge_latlons(graph, args.edge)) :
                flooded_outer(s, args.flooded_points, 1, FALSE) = ret

\* C6's case: the first flood point is exactly 200 m from the edge and not
\* nearer, the second is nearer than 200 m to a sampled point that is not
\* the last one examined.
C6_Witness ==
    /\ pc = "is_flooded_done"
    /\ Len(args.flooded_points) = 2
    /\ \A p \in SampledPoints(args.edge) : DistSq(p, args.flooded_points[1]) >= 2 * 2
    /\ \E p \in SampledPoints(args.edge) : DistSq(p, args.flooded_points[1]) = 2 * 2
    /\ LET latlons == edge_latlons(graph, args.edge)
       IN  /\ DistSq(latlons[1], args.flooded_points[2]) < 2 * 2
           /\ DistSq(latlons[Len(latlons)], args.flooded_points[2]) >= 2 * 2
    /\ ret = TRUE

(***************************************************************************)
(* Properties of get_flooding_points (SpecFloods).                         *)
(***************************************************************************)
\* The rows on the clock's date whose [START_T, END_T) holds its time.
InHalfOpenInterval(row, self) ==
    /\ row.DATE = DateStr(self.year, self.month, self.day)
    /\ ~ StrLess(TimeStr(self.hour, self.minute, self.second), row.START_T)
    /\ StrLess(TimeStr(self.hour, self.minute, self.second), row.END_T)

\* C7: get_flooding_points returns exactly the points of the rows on the
\* matching date whose half-open interval [START_T, END_T) contains the
\* time of day: START_T equal to the time is in, END_T equal to it is out,
\* and nothing matching gives the empty list.
C7_HalfOpenInterval ==
    pc = "get_flooding_points_done"
        => LET hit(row) == InHalfOpenInterval(row, time)
               rows == SelectSeq(flood_df, hit)
           IN  ret = [ i \in 1..Len(rows) |->
                         << (rows[i].Y - UtmY0) \div 100, (rows[i].X - UtmX0) \div 100 >> ]

(***************************************************************************)
(* Properties of crop (SpecCrop).                                          *)
(***************************************************************************)
\* C8: crop never removes a node or an edge of the path it derived the
\* bounding box from: after the crop every node of that path, and an edge
\* between every two consecutive nodes of it, is still in the network.
C8_CropKeepsPath ==
    (pc = "crop_done" /\ ret.status = "returned")
        => /\ Range(ret.gmaps_path) \subseteq graph.nodes
           /\ \A k \in 1..(Len(ret.gmaps_path) - 1) :
                \E e \in graph.edges :
                    e[1] = ret.gmaps_path[k] /\ e[2] = ret.gmaps_path[k + 1]

(***************************************************************************)
(* Properties of the re-planning loop (Spec).                              *)
(***************************************************************************)
\* There is no radar file for the clock's rendered time.
GridAbsent(t) == repr(t) \notin DOMAIN radar_files \/ radar_files[repr(t)] = NoFile

\* C4: in a PLANNING step whose clock has no rainfall grid, the rainfall
\* map of the iteration is 0 for every edge of the current network and the
\* edges' weight attribute stays as it was before the step (the previous
\* weights, or unset).
C4_GridAbsence ==
    [][ (pc = "loop" /\ pc' \in { "advancing", "raised" } /\ GridAbsent(time))
            => /\ rains' = [ e \in graph.edges |-> 0 ]
               /\ weights' = weights ]_vars

\* C4's case: an iteration planned without a grid, after an iteration that
\* had one and set the weights.
C4_Witness ==
    /\ pc = "advancing"
    /\ GridAbsent(time)
    /\ Len(log) >= 1
    /\ ~ GridAbsent(log[Len(log)].time)
    /\ DOMAIN weights = graph.edges
    /\ \A e \in graph.edges : rains[e] = 0

\* The rainfall of an edge at the clock t: the largest value of the grid of
\* t at the edge's sampled points, no-data read as 0; 0 without a grid.
ExpectedRain(e, t) ==
    IF GridAbsent(t) THEN 0
    ELSE LET file == RawFile(radar_files[repr(t)])
         IN  MaxOf({ IF file[p[1], p[2]] = -99 THEN 0 ELSE file[p[1], p[2]] :
                        p \in SampledPoints(e) })

\* The iterations in which the edge e was crossed.
Crossings(e) == { i \in 1..Len(log) : e \in Range(log[i].subpath) }

\* C10: after any number of iterations the exposure record holds, for each
\* edge crossed so far, exactly the rainfall computed in PLANNING (at the
\* clock before the 600 s step) of the latest iteration that crossed it: a
\* second crossing overwrites, and an edge never crossed has no entry.
C10_ExposureOverwrite ==
    pc \in { "loop", "advancing", "returned" }
        => \A e \in WorldEdges :
             IF Crossings(e) = {}
             THEN e \notin DOMAIN edge_rains
             ELSE /\ e \in DOMAIN edge_rains
                  /\ edge_rains[e] = ExpectedRain(e, log[MaxOf(Crossings(e))].time)

\* C10's case: an edge crossed in two iterations with different rainfall.
C10_Witness ==
    /\ pc = "returned"
    /\ \E e \in WorldEdges :
         \E i, j \in Crossings(e) :
            /\ i < j
            /\ j = MaxOf(Crossings(e))
            /\ ExpectedRain(e, log[i].time) # ExpectedRain(e, log[j].time)
            /\ ret[e] = ExpectedRain(e, log[j].time)

\* The node the vehicle stands on after the first i iterations.
Reached(i) ==
    IF i = 0 THEN origin
    ELSE LET sub == log[i].subpath IN sub[Len(sub)][2]

\* The trajectory recorded so far: every iteration crossed at least one edge,
\* its k-th crossed edge runs from the k-th to the (k+1)-th node of the path
\* planned in that iteration, and its first edge starts where the previous
\* iteration ended (at the origin in the first).
Trajectory ==
    \A i \in 1..Len(log) :
        LET path == log[i].path
            sub  == log[i].subpath
        IN  /\ Len(sub) >= 1
            /\ Len(sub) <= Len(path) - 1
            /\ \A k \in 1..Len(sub) :
                  /\ sub[k] \in graph.edges
                  /\ sub[k][1] = path[k]
                  /\ sub[k][2] = path[k + 1]
            /\ sub[1][1] = Reached(i - 1)
            /\ log[i].from = Reached(i - 1)

\* C11: the vehicle's trajectory is a contiguous walk that makes progress in
\* every iteration: an iteration that found a path (position # destination)
\* always completes with at least one crossed edge, each crossed edge is
\* directed from path[k] to path[k+1], the first edge of an iteration starts
\* at the node reached in the previous one (the origin in the first), and
\* when the loop exits the last crossed edge ends at the destination.
C11_ContiguousWalk ==
    /\ [](pc \in { "loop", "advancing", "returned" } =>
            /\ Trajectory
            /\ start = Reached(Len(log))
            /\ (pc = "returned" => Reached(Len(log)) = destination))
    /\ [][pc = "advancing" =>
            /\ pc' = "loop"
            /\ Len(log') = Len(log) + 1
            /\ log'[Len(log')].from # destination
            /\ log'[Len(log')].path = shortest_path]_vars

\* C11's case: the loop exits after several iterations, one of which crossed
\* more than one edge and one of which stopped short of the planned path's end.
C11_Witness ==
    /\ pc = "returned"
    /\ Len(log) >= 2
    /\ \E i \in 1..Len(log) : Len(log[i].subpath) >= 2
    /\ \E i \in 1..Len(log) : Len(log[i].subpath) < Len(log[i].path) - 1
    /\ log[Len(log)].subpath[Len(log[Len(log)].subpath)][2] = destination

====
